---- MODULE Spec2Model ----
(***************************************************************************)
(* OpenPGP transferable public keys (src/composed/signed_key/public.rs):   *)
(* SignedPublicKey / SignedPublicSubKey, their construction, the parser    *)
(* iterator, verification, the unsigned projection and serialization.      *)
(***************************************************************************)
EXTENDS Integers, Sequences, FiniteSets, TLC

VARIABLES
    cert,      \* the SignedPublicKey value the operations act on, or NoCert
    origin,    \* "none", "new" (SignedPublicKey::new called), "parsed" (returned by
               \* the parser iterator) or "literal" (written as a struct literal)
    cands,     \* the (key, signatures) pairs the candidates of cert were built from
    inner,     \* SignedPublicKeyParser.inner: <<>> before from_packets, then <<n>>,
               \* n the key blocks left in the packet stream
    blocks,    \* what the grouping collaborator returned, call by call
    items,     \* what SignedPublicKeyParser::next returned, call by call
    item,      \* the element the last call of next returned
    res        \* the outcome of the last operation applied to cert

vars == <<cert, origin, cands, inner, blocks, items, item, res>>

\* ------------------------------------------------------------------ bounds
\* subkeys of one certificate, signatures of one certificate (over all its
\* subkeys), key blocks of one packet stream
MaxSubkeys == 2
MaxSigs == 2
MaxBlocks == 2

\* ------------------------------------------------------------------ values
NoCert == [primary_key |-> [id |-> 0, created_at |-> 0, len |-> 0],
           details |-> [signer |-> 0, expiration |-> -1, len |-> 0],
           public_subkeys |-> <<>>]

NoRes == [op |-> "none", err |-> "", trace |-> <<>>, value |-> <<>>, n |-> 0]

NoItem == [kind |-> "none", cert |-> NoCert]

NoBlock == [primary_key |-> NoCert.primary_key, details |-> NoCert.details,
            public_subkeys |-> <<>>, raw |-> <<>>]

\* Sequences of length 0..n over S.
SeqUpTo(S, n) == UNION {[1..k -> S] : k \in 0..n}

RECURSIVE SumSeq(_)
SumSeq(s) == IF s = <<>> THEN 0 ELSE Head(s) + SumSeq(Tail(s))

\* A subpacket of a signature: key flags (with the signing bit) or an embedded
\* signature, itself a binding made by `bind[1]` over (bind[1], bind[2]).
KeyFlags(sign) == [data |-> "KeyFlags", sign |-> sign, bind |-> <<0, 0>>]
EmbeddedSignature(signer, over) ==
    [data |-> "EmbeddedSignature", sign |-> FALSE, bind |-> <<signer, over>>]

\* packet::Signature: its type (typ() = None is "None"), what it binds (made by
\* bind[1] over (bind[1], bind[2])), its two subpacket areas, its body length.
Sig(typ, signer, signee, hashed, unhashed, len) ==
    [typ |-> typ, bind |-> <<signer, signee>>, hashed |-> hashed,
     unhashed |-> unhashed, len |-> len]

\* ------------------------------------------------------------ construction
\* SignedPublicSubKey::new: keep only SubkeyBinding and SubkeyRevocation.
KeepSig(sig) == ~(sig.typ # "SubkeyBinding" /\ sig.typ # "SubkeyRevocation")

SignedPublicSubKeyNew(key, signatures) ==
    [key |-> key, signatures |-> SelectSeq(signatures, KeepSig)]

\* SignedPublicKey::new: drop the subkeys without signatures.
KeepSubkey(key) == ~(key.signatures = <<>>)

\* SignedPublicKey::new without the retain: unsigned subkeys stay.
SignedPublicKeyNewNoRetain(primary_key, details, public_subkeys) ==
    [primary_key |-> primary_key, details |-> details,
     public_subkeys |-> public_subkeys]

SignedPublicKeyNew(primary_key, details, public_subkeys) ==
    [primary_key |-> primary_key, details |-> details,
     public_subkeys |-> SelectSeq(public_subkeys, KeepSubkey)]

\* The candidates built from (key, signatures) pairs.
BuildSubkeys(raw) ==
    [i \in 1..Len(raw) |-> SignedPublicSubKeyNew(raw[i].key, raw[i].signatures)]

\* ------------------------------------------------------------------ inputs
\* Input values: the id of the primary key of the certificates, the id of a
\* key that is none of theirs, and the length of a short packet body.
PrimaryId == 1
OtherId == 9
\* The i-th candidate subkey of a certificate has key id SubkeyId(i).
SubkeyId(i) == PrimaryId + i

SigTypes == {"SubkeyBinding", "SubkeyRevocation", "CertGeneric", "None"}

SmallLen == 10

PrimaryKeys == {[id |-> PrimaryId, created_at |-> t, len |-> SmallLen] : t \in {0, 5}}

\* SignedKeyDetails: who made its self-signatures, its key expiration duration
\* (-1: no such subpacket), the length of its encoding.
NoExpiration == -1
DetailsPool == {[signer |-> PrimaryId, expiration |-> e, len |-> SmallLen] :
                    e \in {NoExpiration, 0, 7}}

\* Signature lists for the candidates 1..n: list i over the pool Pool[i] of
\* candidate i, at most budget signatures in all.
RECURSIVE SigLists(_, _, _)
SigLists(n, Pool, budget) ==
    IF n = 0 THEN {<<>>}
    ELSE UNION {{Append(rest, s) : rest \in SigLists(n - 1, Pool, budget - Len(s))} :
                    s \in SeqUpTo(Pool[n], budget)}

\* Candidate (key, signatures) pairs of a certificate.
RawSubkeys(Pool, KeyLens) ==
    UNION {{[i \in 1..n |-> [key |-> [id |-> SubkeyId(i), len |-> l[i]],
                              signatures |-> f[i]]] :
                f \in SigLists(n, Pool, MaxSigs), l \in [1..n -> KeyLens]} :
           n \in 0..MaxSubkeys}

\* Signatures of every type after a subkey packet.
TypedSigs ==
    [i \in 1..MaxSubkeys |->
        {Sig(t, PrimaryId, SubkeyId(i), <<>>, <<>>, SmallLen) : t \in SigTypes}]

\* ------------------------------------------------------------------ parser
\* key_parser::next: the next key block of the stream, an error for a
\* malformed block, None at the end of the stream.
\* Key blocks of a stream: without subkeys, with one bound subkey, with a bound
\* subkey and an unsigned one, with a subkey followed by a certification only.
BlockSubkeys ==
    LET sig(t, i) == Sig(t, PrimaryId, SubkeyId(i), <<>>, <<>>, SmallLen)
        sub(i, sigs) == [key |-> [id |-> SubkeyId(i), len |-> SmallLen], signatures |-> sigs]
    IN  {<<>>,
         <<sub(1, <<sig("SubkeyBinding", 1)>>)>>,
         <<sub(1, <<sig("SubkeyBinding", 1)>>), sub(2, <<>>)>>,
         <<sub(1, <<sig("CertGeneric", 1)>>)>>}

ParserBlocks ==
    {[primary_key |-> [id |-> PrimaryId, created_at |-> x[1], len |-> SmallLen],
      details |-> [signer |-> PrimaryId, expiration |-> x[2], len |-> SmallLen],
      public_subkeys |-> BuildSubkeys(raw), raw |-> raw] :
        x \in {<<0, NoExpiration>>, <<5, 7>>}, raw \in BlockSubkeys}

key_parser_next(remaining) ==
    IF remaining = 0 THEN {[kind |-> "none", block |-> NoBlock]}
    ELSE {[kind |-> "err", block |-> NoBlock]}
         \cup {[kind |-> "ok", block |-> b] : b \in ParserBlocks}

\* SignedPublicKeyParser::next: the element for one result of the collaborator.
\* SignedPublicKeyParser::next ending the sequence at a malformed block.
ParserItemSkipErr(r) ==
    CASE r.kind = "err" -> [kind |-> "none", cert |-> NoCert]
      [] r.kind = "none" -> [kind |-> "none", cert |-> NoCert]
      [] r.kind = "ok" ->
            [kind |-> "ok",
             cert |-> SignedPublicKeyNew(r.block.primary_key, r.block.details,
                                         r.block.public_subkeys)]

ParserItem(r) ==
    CASE r.kind = "err" -> [kind |-> "err", cert |-> NoCert]
      [] r.kind = "none" -> [kind |-> "none", cert |-> NoCert]
      [] r.kind = "ok" ->
            [kind |-> "ok",
             cert |-> SignedPublicKeyNew(r.block.primary_key, r.block.details,
                                         r.block.public_subkeys)]

\* SignedPublicKeyParser::from_packets over a stream of n key blocks
FromPackets ==
    /\ inner = <<>>
    /\ origin = "none"
    /\ \E n \in 0..MaxBlocks : inner' = <<n>>
    /\ UNCHANGED <<cert, origin, cands, blocks, items, item, res>>

ParserNext ==
    /\ inner # <<>>
    /\ Len(items) <= MaxBlocks
    /\ \E r \in key_parser_next(inner[1]) :
        /\ inner' = IF inner[1] = 0 THEN inner ELSE <<inner[1] - 1>>
        /\ blocks' = Append(blocks, r.kind)
        /\ item' = ParserItem(r)
        /\ items' = Append(items, item'.kind)
        /\ cert' = IF item'.kind = "ok" THEN item'.cert ELSE cert
        /\ origin' = IF item'.kind = "ok" THEN "parsed" ELSE origin
        /\ cands' = IF item'.kind = "ok" THEN r.block.raw ELSE cands
        /\ res' = NoRes

\* ---------------------------------------------------------------- assembly
\* SignedPublicKey::new on candidates built by SignedPublicSubKey::new.
Assemble(primary_key, details, raw) ==
    /\ cert' = SignedPublicKeyNew(primary_key, details, BuildSubkeys(raw))
    /\ origin' = "new"
    /\ cands' = raw
    /\ res' = NoRes
    /\ UNCHANGED <<inner, blocks, items, item>>

New ==
    /\ origin = "none"
    /\ inner = <<>>
    /\ \E p \in PrimaryKeys, d \in DetailsPool,
          raw \in RawSubkeys(TypedSigs, {SmallLen}) :
            Assemble(p, d, raw)

\* SignedPublicKey::expires_at
\* expires_at without the creation time added.
expires_at_duration(self) ==
    IF self.details.expiration = NoExpiration
        THEN [some |-> FALSE, at |-> 0]
        ELSE [some |-> TRUE, at |-> self.details.expiration]

expires_at(self) ==
    IF self.details.expiration = NoExpiration
        THEN [some |-> FALSE, at |-> 0]
        ELSE [some |-> TRUE, at |-> self.primary_key.created_at + self.details.expiration]

ExpiresAt ==
    /\ origin # "none"
    /\ res' = [NoRes EXCEPT !.op = "expires_at", !.value = <<expires_at(cert)>>]
    /\ UNCHANGED <<cert, origin, cands, inner, blocks, items, item>>

\* ------------------------------------------------------------ verification
\* The first subpacket of an area carrying `data`: <<>> (None) or <<p>> (Some).
FindMap(area, data) ==
    LET at == {k \in 1..Len(area) : area[k].data = data}
    IN  IF at = {} THEN <<>>
        ELSE <<area[CHOOSE k \in at : \A m \in at : k <= m]>>

\* Signature::config: present for the signatures whose type is known.
hashed_subpackets(sig) == IF sig.typ = "None" THEN <<>> ELSE sig.hashed
unhashed_subpackets(sig) == IF sig.typ = "None" THEN <<>> ELSE sig.unhashed

\* Signature::key_flags().sign(): the key flags of the hashed area, default none.
key_flags_sign(sig) ==
    LET f == FindMap(hashed_subpackets(sig), "KeyFlags")
    IN  IF f = <<>> THEN FALSE ELSE f[1].sign

\* Signature::embedded_signature: the embedded signature the signature carries,
\* in its hashed or its unhashed area.
embedded_signature(sig) ==
    FindMap(hashed_subpackets(sig) \o unhashed_subpackets(sig), "EmbeddedSignature")

\* Signature::verify_subkey_binding(signer, signee): sig is a binding made by
\* signer over (signer, signee).
verify_subkey_binding(sig, signer, signee) == sig.bind = <<signer.id, signee.id>>

\* Signature::verify_primary_key_binding(signer, signee): the embedded signature
\* is a binding made by the subkey `signer` over (signer, signee).
verify_primary_key_binding(backsig, signer, signee) ==
    backsig.bind = <<signer.id, signee.id>>

\* SignedKeyDetails::verify(key): its self-signatures were made by key.
details_verify(details, key) == details.signer = key.id

Ok == [err |-> "", trace |-> <<>>]
Check(check, i, j, err) == [check |-> check, sub |-> i, sig |-> j, err |-> err]
Done(check, i, j, err) == [err |-> err, trace |-> <<Check(check, i, j, err)>>]

\* r, then `rest` unless r failed (the ? operator).
Then(r, rest) ==
    IF r.err # "" THEN r ELSE [err |-> rest.err, trace |-> r.trace \o rest.trace]

MissingBindings == "missing subkey bindings"
MissingEmbedded == "missing embedded signature for signing capable subkey"
BadBinding == "invalid subkey binding"
BadBacksig == "invalid primary key binding"
BadDetails == "invalid self-signature"

\* The body of the loop of SignedPublicSubKey::verify for signature j of the
\* subkey at position i.
\* The loop body accepting a signing-capable signature without embedded signature.
VerifySigOptionalBacksig(self, key, i, j) ==
    LET sig == self.signatures[j]
        backsig == embedded_signature(sig)
        fwd == Done("subkey_binding", i, j,
                    IF verify_subkey_binding(sig, key, self.key) THEN "" ELSE BadBinding)
        back == IF key_flags_sign(sig) /\ backsig # <<>>
                THEN Done("embedded", i, j,
                          IF verify_primary_key_binding(backsig[1], self.key, key)
                          THEN "" ELSE BadBacksig)
                ELSE Ok
    IN  Then(fwd, back)

VerifySig(self, key, i, j) ==
    LET sig == self.signatures[j]
        backsig == embedded_signature(sig)
        fwd == Done("subkey_binding", i, j,
                    IF verify_subkey_binding(sig, key, self.key) THEN "" ELSE BadBinding)
        back == IF key_flags_sign(sig)
                THEN Done("embedded", i, j,
                          IF backsig = <<>> THEN MissingEmbedded
                          ELSE IF verify_primary_key_binding(backsig[1], self.key, key)
                               THEN "" ELSE BadBacksig)
                ELSE Ok
    IN  Then(fwd, back)

\* for sig in &self.signatures, from signature j on
RECURSIVE VerifySigsFrom(_, _, _, _)
VerifySigsFrom(self, key, i, j) ==
    IF j > Len(self.signatures) THEN Ok
    ELSE Then(VerifySig(self, key, i, j), VerifySigsFrom(self, key, i, j + 1))

\* SignedPublicSubKey::verify, for the subkey at position i
\* SignedPublicSubKey::verify without the ensure!, and one verifying the latest
\* signature only (the TODO of the loop).
SignedPublicSubKeyVerifyNoEnsure(self, key, i) ==
    VerifySigsFrom(self, key, i, 1)

SignedPublicSubKeyVerifyLatest(self, key, i) ==
    Then(Done("bindings", i, 0, IF self.signatures # <<>> THEN "" ELSE MissingBindings),
         VerifySigsFrom(self, key, i, Len(self.signatures)))

SignedPublicSubKeyVerify(self, key, i) ==
    Then(Done("bindings", i, 0, IF self.signatures # <<>> THEN "" ELSE MissingBindings),
         VerifySigsFrom(self, key, i, 1))

\* SignedPublicKey::verify_public_subkeys, from the subkey at position i on
RECURSIVE verify_public_subkeys_from(_, _)
verify_public_subkeys_from(self, i) ==
    IF i > Len(self.public_subkeys) THEN Ok
    ELSE Then(SignedPublicSubKeyVerify(self.public_subkeys[i], self.primary_key, i),
              verify_public_subkeys_from(self, i + 1))

verify_public_subkeys(self) == verify_public_subkeys_from(self, 1)

\* SignedPublicKey::verify
\* SignedPublicKey::verify with the subkeys verified before the details.
SignedPublicKeyVerifySubkeysFirst(self) ==
    Then(verify_public_subkeys(self),
         Done("details", 0, 0,
              IF details_verify(self.details, self.primary_key) THEN "" ELSE BadDetails))

SignedPublicKeyVerify(self) ==
    Then(Done("details", 0, 0,
              IF details_verify(self.details, self.primary_key) THEN "" ELSE BadDetails),
         verify_public_subkeys(self))

\* --------------------------------------------------------- unsigned projection
\* SignedPublicSubKey::as_unsigned; panics without a first signature.
SignedPublicSubKeyAsUnsigned(self) ==
    IF self.signatures = <<>> THEN [panic |-> TRUE, key |-> self.key,
                                    keyflags_sign |-> FALSE, embedded |-> <<>>]
    ELSE LET sig == self.signatures[1]
         IN  [panic |-> FALSE, key |-> self.key,
              keyflags_sign |-> key_flags_sign(sig),
              embedded |-> FindMap(hashed_subpackets(sig), "EmbeddedSignature")]

\* SignedPublicKey::as_unsigned
SignedPublicKeyAsUnsigned(self) ==
    [i \in 1..Len(self.public_subkeys) |->
        SignedPublicSubKeyAsUnsigned(self.public_subkeys[i])]

\* ------------------------------------------------- certificates to verify
\* Binding signatures of candidate i by the primary key: without key flags (a
\* revocation), not signing-capable with a stray embedded signature, and
\* signing-capable with a valid embedded signature in the hashed area, in the
\* unhashed area, with none, with an invalid one; and one not made by the
\* primary key.
BindingSigs ==
    [i \in 1..MaxSubkeys |->
        LET p == PrimaryId
            k == SubkeyId(i)
            B == "SubkeyBinding"
        IN  {Sig("SubkeyRevocation", p, k, <<>>, <<>>, SmallLen),
             Sig(B, p, k, <<KeyFlags(FALSE), EmbeddedSignature(p, k)>>, <<>>, SmallLen),
             Sig(B, p, k, <<KeyFlags(TRUE), EmbeddedSignature(k, p)>>, <<>>, SmallLen),
             Sig(B, p, k, <<KeyFlags(TRUE)>>, <<EmbeddedSignature(k, p)>>, SmallLen),
             Sig(B, p, k, <<KeyFlags(TRUE)>>, <<>>, SmallLen),
             Sig(B, p, k, <<KeyFlags(TRUE), EmbeddedSignature(p, k)>>, <<>>, SmallLen),
             Sig(B, OtherId, k, <<KeyFlags(TRUE)>>, <<>>, SmallLen)}]

VerifyPrimary == [id |-> PrimaryId, created_at |-> 0, len |-> SmallLen]
VerifyDetails == {[signer |-> who, expiration |-> NoExpiration, len |-> SmallLen] :
                    who \in {PrimaryId, OtherId}}
VerifierKeys == {VerifyPrimary, [id |-> OtherId, created_at |-> 0, len |-> SmallLen]}

NewSigned ==
    /\ origin = "none"
    /\ \E d \in VerifyDetails, raw \in RawSubkeys(BindingSigs, {SmallLen}) :
            Assemble(VerifyPrimary, d, raw)

\* A SignedPublicKey written as a struct literal (its fields are public), with
\* a subkey SignedPublicKey::new would have dropped.
Literal ==
    /\ origin = "none"
    /\ \E d \in VerifyDetails, raw \in RawSubkeys(BindingSigs, {SmallLen}) :
        /\ \E i \in 1..Len(raw) : raw[i].signatures = <<>>
        /\ cert' = [primary_key |-> VerifyPrimary, details |-> d, public_subkeys |-> raw]
        /\ origin' = "literal"
        /\ cands' = raw
        /\ res' = NoRes
        /\ UNCHANGED <<inner, blocks, items, item>>

Verify ==
    /\ origin # "none"
    /\ LET r == SignedPublicKeyVerify(cert)
       IN  res' = [NoRes EXCEPT !.op = "verify", !.err = r.err, !.trace = r.trace]
    /\ UNCHANGED <<cert, origin, cands, inner, blocks, items, item>>

SubkeyVerify ==
    /\ origin # "none"
    /\ \E i \in 1..Len(cert.public_subkeys), key \in VerifierKeys :
        LET r == SignedPublicSubKeyVerify(cert.public_subkeys[i], key, i)
        IN  res' = [NoRes EXCEPT !.op = "subkey_verify", !.err = r.err,
                                 !.trace = r.trace, !.value = <<key>>, !.n = i]
    /\ UNCHANGED <<cert, origin, cands, inner, blocks, items, item>>

AsUnsigned ==
    /\ origin # "none"
    /\ LET u == SignedPublicKeyAsUnsigned(cert)
       IN  res' = [NoRes EXCEPT
                    !.op = "as_unsigned",
                    !.err = IF \E i \in 1..Len(u) : u[i].panic
                            THEN "missing signatures" ELSE "",
                    !.value = u, !.n = Len(u)]
    /\ UNCHANGED <<cert, origin, cands, inner, blocks, items, item>>

\* ------------------------------------------------------------ serialization
\* PacketLength::fixed_encoding_len: the width of the length prefix of a body
\* of len bytes (one, two or five bytes).
OneByteLimit == 192
TwoByteLimit == 8384
fixed_encoding_len(len) ==
    IF len < OneByteLimit THEN 1 ELSE IF len < TwoByteLimit THEN 2 ELSE 1 + 4

\* A packet header: the tag byte, then the length prefix.
TagLen == 1
header_write_len(len) == TagLen + fixed_encoding_len(len)

\* One write to the sink: n bytes, the header or the body of the primary key
\* packet, of the details, of the key packet of subkey `sub` or of its
\* signature `sig`.
Chunk(pkt, i, j, part, n) == [pkt |-> pkt, sub |-> i, sig |-> j, part |-> part, n |-> n]

\* io::Write: a sink that takes `left` more writes (Unlimited: all of them).
Unlimited == -1
Sink(left) == [out |-> <<>>, left |-> left, err |-> ""]
Write(w, chunk) ==
    IF w.left = 0 THEN [w EXCEPT !.err = "io"]
    ELSE [w EXCEPT !.out = Append(w.out, chunk),
                   !.left = IF w.left = Unlimited THEN Unlimited ELSE w.left - 1]

\* PacketTrait::to_writer_with_header: the header, then the body.
to_writer_with_header(w, pkt, i, j, len) ==
    LET w1 == Write(w, Chunk(pkt, i, j, "header", header_write_len(len)))
    IN  IF w1.err # "" THEN w1 ELSE Write(w1, Chunk(pkt, i, j, "body", len))

\* SignedKeyDetails::to_writer and write_len
details_to_writer(w, details) == Write(w, Chunk("details", 0, 0, "body", details.len))
details_write_len(details) == details.len

\* for sig in &self.signatures, from signature j on
RECURSIVE SigsToWriterFrom(_, _, _, _)
SigsToWriterFrom(w, self, i, j) ==
    IF j > Len(self.signatures) THEN w
    ELSE LET w1 == to_writer_with_header(w, "Signature", i, j, self.signatures[j].len)
         IN  IF w1.err # "" THEN w1 ELSE SigsToWriterFrom(w1, self, i, j + 1)

\* SignedPublicSubKey::to_writer, for the subkey at position i
\* SignedPublicSubKey::to_writer with the signatures written before the key packet.
SignedPublicSubKeyToWriterSigsFirst(w, self, i) ==
    LET w1 == SigsToWriterFrom(w, self, i, 1)
    IN  IF w1.err # "" THEN w1
        ELSE to_writer_with_header(w1, "PublicSubkey", i, 0, self.key.len)

SignedPublicSubKeyToWriter(w, self, i) ==
    LET w1 == to_writer_with_header(w, "PublicSubkey", i, 0, self.key.len)
    IN  IF w1.err # "" THEN w1 ELSE SigsToWriterFrom(w1, self, i, 1)

\* for ps in &self.public_subkeys, from the subkey at position i on
RECURSIVE SubkeysToWriterFrom(_, _, _)
SubkeysToWriterFrom(w, self, i) ==
    IF i > Len(self.public_subkeys) THEN w
    ELSE LET w1 == SignedPublicSubKeyToWriter(w, self.public_subkeys[i], i)
         IN  IF w1.err # "" THEN w1 ELSE SubkeysToWriterFrom(w1, self, i + 1)

\* SignedPublicKey::to_writer
SignedPublicKeyToWriter(w, self) ==
    LET w1 == to_writer_with_header(w, "PublicKey", 0, 0, self.primary_key.len)
    IN  IF w1.err # "" THEN w1
        ELSE LET w2 == details_to_writer(w1, self.details)
             IN  IF w2.err # "" THEN w2 ELSE SubkeysToWriterFrom(w2, self, 1)

\* SignedPublicSubKey::write_len
SignedPublicSubKeyWriteLen(self) ==
    fixed_encoding_len(self.key.len) + self.key.len
    + SumSeq([j \in 1..Len(self.signatures) |->
                fixed_encoding_len(self.signatures[j].len) + self.signatures[j].len])

\* SignedPublicKey::write_len
SignedPublicKeyWriteLen(self) ==
    fixed_encoding_len(self.primary_key.len) + self.primary_key.len
    + details_write_len(self.details)
    + SumSeq([i \in 1..Len(self.public_subkeys) |->
                SignedPublicSubKeyWriteLen(self.public_subkeys[i])])

\* Packet bodies on both sides of the limits of the length prefix.
BodyLens == {OneByteLimit - 1, OneByteLimit, TwoByteLimit}
KeyLens == {SmallLen, TwoByteLimit - 1}

SizedSigs ==
    [i \in 1..MaxSubkeys |->
        {Sig("SubkeyBinding", PrimaryId, SubkeyId(i), <<>>, <<>>, l) : l \in BodyLens}]

NewSized ==
    /\ origin = "none"
    /\ \E l \in BodyLens, raw \in RawSubkeys(SizedSigs, KeyLens) :
            Assemble([id |-> PrimaryId, created_at |-> 0, len |-> l],
                     [signer |-> PrimaryId, expiration |-> NoExpiration, len |-> SmallLen],
                     raw)

\* write_len of the certificate (target 0) or of its subkey at position target
WriteLen ==
    /\ origin # "none"
    /\ \E target \in 0..Len(cert.public_subkeys) :
        res' = [NoRes EXCEPT
                 !.op = "write_len",
                 !.value = <<target>>,
                 !.n = IF target = 0 THEN SignedPublicKeyWriteLen(cert)
                       ELSE SignedPublicSubKeyWriteLen(cert.public_subkeys[target])]
    /\ UNCHANGED <<cert, origin, cands, inner, blocks, items, item>>

\* to_writer of the certificate into a sink that fails at some write, or never
ToWriter ==
    /\ origin # "none"
    /\ \E left \in {Unlimited} \cup
                    (0..(Len(SignedPublicKeyToWriter(Sink(Unlimited), cert).out) - 1)) :
        LET w == SignedPublicKeyToWriter(Sink(left), cert)
        IN  res' = [NoRes EXCEPT !.op = "to_writer", !.err = w.err,
                                 !.value = w.out, !.n = left]
    /\ UNCHANGED <<cert, origin, cands, inner, blocks, items, item>>

Init ==
    /\ cert = NoCert
    /\ origin = "none"
    /\ cands = <<>>
    /\ inner = <<>>
    /\ blocks = <<>>
    /\ items = <<>>
    /\ item = NoItem
    /\ res = NoRes

Next == New \/ FromPackets \/ ParserNext \/ ExpiresAt

Spec == Init /\ [][Next]_vars

\* Verification and projection of assembled and literal certificates.
InitVerify == Init

NextVerify == NewSigned \/ Literal \/ Verify \/ SubkeyVerify \/ AsUnsigned

SpecVerify == InitVerify /\ [][NextVerify]_vars

\* Serialization of assembled certificates.
InitSer == Init

NextSer == NewSized \/ WriteLen \/ ToWriter

SpecSer == InitSer /\ [][NextSer]_vars

\* ------------------------------------------------------------------ claims
Assembled == origin \in {"new", "parsed"}

Retained(sig) == sig.typ \in {"SubkeyBinding", "SubkeyRevocation"}

SigsOf(sub) == {sub.signatures[j] : j \in 1..Len(sub.signatures)}

\* C1: a certificate assembled by SignedPublicKey::new from candidates built by
\* SignedPublicSubKey::new keeps only subkeys with at least one signature, all
\* of type SubkeyBinding or SubkeyRevocation; a candidate without signatures,
\* or with signatures of other types only, is absent from it.
C1_AssembledShape ==
    Assembled =>
        /\ \A i \in 1..Len(cert.public_subkeys) :
                /\ cert.public_subkeys[i].signatures # <<>>
                /\ \A sig \in SigsOf(cert.public_subkeys[i]) : Retained(sig)
        /\ \A c \in 1..Len(cands) :
                (\A sig \in SigsOf(cands[c]) : ~Retained(sig)) =>
                    \A i \in 1..Len(cert.public_subkeys) :
                        cert.public_subkeys[i].key # cands[c].key

C1_Witness ==
    /\ origin = "new"
    /\ Len(cands) = 2
    /\ cands[1].signatures # <<>>
    /\ \A sig \in SigsOf(cands[1]) : ~Retained(sig)
    /\ Len(cands[2].signatures) = 1
    /\ Len(cert.public_subkeys) = 1
    /\ cert.public_subkeys[1].key = cands[2].key

\* C8: expires_at is absent when the details report no key expiration, and
\* otherwise the creation time of the primary key plus the duration (0
\* included), whatever the subkeys are.
C8_ExpiresAt ==
    res.op = "expires_at" =>
        res.value[1] =
            IF cert.details.expiration = NoExpiration
            THEN [some |-> FALSE, at |-> 0]
            ELSE [some |-> TRUE,
                  at |-> cert.primary_key.created_at + cert.details.expiration]

C8_Witness ==
    /\ res.op = "expires_at"
    /\ cert.primary_key.created_at = 5
    /\ cert.details.expiration = 7
    /\ res.value[1] = [some |-> TRUE, at |-> 12]
    /\ Len(cert.public_subkeys) = 2

NonEnd(s) == Cardinality({k \in 1..Len(s) : s[k] # "none"})

\* C9: the parser iterator returns one element per result of the grouping
\* collaborator, in order: an error for an error, a certificate for a key
\* block (also when subkeys were dropped), the end exactly at the end; a
\* stream of n blocks gives at most n elements before the end.
C9_ParserElements ==
    /\ Len(items) = Len(blocks)
    /\ \A k \in 1..Len(items) : items[k] = blocks[k]
    /\ inner # <<>> => NonEnd(items) + inner[1] <= MaxBlocks
    /\ inner = <<>> => items = <<>>
    /\ (items # <<>> /\ items[Len(items)] = "ok") =>
            /\ item.kind = "ok"
            /\ item.cert = cert
            /\ \A i \in 1..Len(cert.public_subkeys) :
                    \E c \in 1..Len(cands) : cands[c].key = cert.public_subkeys[i].key
    /\ (items # <<>> /\ items[Len(items)] # "ok") => item.kind = items[Len(items)]

C9_Witness ==
    /\ items = <<"err", "ok", "none">>
    /\ blocks = items
    /\ Len(cands) = 2
    /\ Len(cert.public_subkeys) = 1

FwdValid(sub, sig, key) == sig.bind = <<key.id, sub.key.id>>
Carried(sig) ==
    {k \in 1..Len(sig.hashed \o sig.unhashed) :
        (sig.hashed \o sig.unhashed)[k].data = "EmbeddedSignature"}
SignCapable(sig) ==
    \E k \in 1..Len(sig.hashed) :
        /\ sig.hashed[k].data = "KeyFlags"
        /\ sig.hashed[k].sign
BackValid(sub, sig, key) ==
    /\ Carried(sig) # {}
    /\ embedded_signature(sig)[1].bind = <<sub.key.id, key.id>>
SigOk(sub, sig, key) ==
    /\ FwdValid(sub, sig, key)
    /\ SignCapable(sig) => BackValid(sub, sig, key)
SubkeyOk(sub, key) ==
    /\ sub.signatures # <<>>
    /\ \A sig \in SigsOf(sub) : SigOk(sub, sig, key)

Entries(trace) == {trace[k] : k \in 1..Len(trace)}

\* C5: in SignedPublicSubKey::verify, a signature that passed the forward check
\* and marks the subkey signing-capable fails with the missing-embedded error
\* when it carries no embedded signature, and otherwise has that embedded
\* signature verified as a binding by the subkey over (subkey, primary); a
\* signature that does not mark signing capability gets no embedded check.
C5_EmbeddedRequired ==
    res.op = "subkey_verify" =>
        LET sub == cert.public_subkeys[res.n]
            key == res.value[1]
        IN  \A j \in 1..Len(sub.signatures) :
                LET sig == sub.signatures[j]
                    passed == Check("subkey_binding", res.n, j, "") \in Entries(res.trace)
                IN  /\ (passed /\ SignCapable(sig) /\ Carried(sig) = {}) =>
                        /\ res.err = MissingEmbedded
                        /\ res.trace[Len(res.trace)] =
                                Check("embedded", res.n, j, MissingEmbedded)
                    /\ (passed /\ SignCapable(sig) /\ Carried(sig) # {}) =>
                        IF BackValid(sub, sig, key)
                        THEN Check("embedded", res.n, j, "") \in Entries(res.trace)
                        ELSE /\ res.err = BadBacksig
                             /\ res.trace[Len(res.trace)] =
                                    Check("embedded", res.n, j, BadBacksig)
                    /\ ~SignCapable(sig) =>
                        \A e \in Entries(res.trace) :
                            ~(e.check = "embedded" /\ e.sig = j)

C5_Witness ==
    /\ res.op = "subkey_verify"
    /\ res.err = MissingEmbedded
    /\ Len(res.trace) = 5
    /\ Len(cert.public_subkeys[res.n].signatures) = 2
    /\ res.value[1] = cert.primary_key

\* The checks verify() has to make, and their place in its order.
Plan(c) ==
    {Check("details", 0, 0, "")}
    \cup {Check("bindings", i, 0, "") : i \in 1..Len(c.public_subkeys)}
    \cup UNION {{Check("subkey_binding", i, j, "") :
                    j \in 1..Len(c.public_subkeys[i].signatures)} :
                i \in 1..Len(c.public_subkeys)}
    \cup UNION {{Check("embedded", i, j, "") :
                    j \in {m \in 1..Len(c.public_subkeys[i].signatures) :
                            SignCapable(c.public_subkeys[i].signatures[m])}} :
                i \in 1..Len(c.public_subkeys)}
Rank(e) == e.sub * 100 + e.sig * 2 + (IF e.check = "embedded" THEN 1 ELSE 0)
Outcome(c, e) ==
    LET sub == c.public_subkeys[e.sub]
    IN  CASE e.check = "details" ->
                IF c.details.signer = c.primary_key.id THEN "" ELSE BadDetails
          [] e.check = "bindings" ->
                IF sub.signatures = <<>> THEN MissingBindings ELSE ""
          [] e.check = "subkey_binding" ->
                IF FwdValid(sub, sub.signatures[e.sig], c.primary_key) THEN "" ELSE BadBinding
          [] e.check = "embedded" ->
                IF Carried(sub.signatures[e.sig]) = {} THEN MissingEmbedded
                ELSE IF BackValid(sub, sub.signatures[e.sig], c.primary_key) THEN ""
                     ELSE BadBacksig

\* C6: verify() makes its checks in the fixed order (details, then the subkeys
\* in order, each signature in order, forward before embedded), stops at the
\* first that fails and returns its error; failing details end it at once.
C6_FirstFailure ==
    res.op = "verify" =>
        LET t == res.trace
            n == Len(t)
        IN  /\ n >= 1
            /\ \A k \in 1..n :
                    /\ [t[k] EXCEPT !.err = ""] \in Plan(cert)
                    /\ t[k].err = Outcome(cert, t[k])
                    /\ k < n => t[k].err = ""
                    /\ k < n => Rank(t[k]) < Rank(t[k + 1])
            /\ res.err = t[n].err
            /\ \A e \in Plan(cert) :
                    (Rank(e) < Rank(t[n]) \/ res.err = "") =>
                        \E k \in 1..n : [t[k] EXCEPT !.err = ""] = e
            /\ cert.details.signer # cert.primary_key.id =>
                    /\ res.err = BadDetails
                    /\ t = <<Check("details", 0, 0, BadDetails)>>

C6_Witness ==
    /\ res.op = "verify"
    /\ res.err = BadDetails
    /\ Len(res.trace) = 1
    /\ Len(cert.public_subkeys) = 2
    /\ ~SubkeyOk(cert.public_subkeys[1], cert.primary_key)

\* C7: as_unsigned() of an assembled certificate with n subkeys gives n entries
\* in order, entry i with the key of subkey i, the key flags of its first
\* signature and the embedded signature verify() checks for that signature.
C7_FirstSignature ==
    (res.op = "as_unsigned" /\ Assembled) =>
        /\ res.err = ""
        /\ Len(res.value) = Len(cert.public_subkeys)
        /\ \A i \in 1..Len(res.value) :
                LET first == cert.public_subkeys[i].signatures[1]
                IN  /\ res.value[i].key = cert.public_subkeys[i].key
                    /\ res.value[i].keyflags_sign = SignCapable(first)
                    /\ res.value[i].embedded = embedded_signature(first)

\* C10: verify() of a certificate holding a subkey without signatures fails
\* with "missing subkey bindings" when the details and the subkeys before it
\* verify, and SignedPublicSubKey::verify of such a subkey fails with it for
\* any key.
C10_MissingBindings ==
    /\ (res.op = "verify" /\ origin = "literal") =>
            \A i \in 1..Len(cert.public_subkeys) :
                (/\ cert.public_subkeys[i].signatures = <<>>
                 /\ cert.details.signer = cert.primary_key.id
                 /\ \A m \in 1..(i - 1) :
                        SubkeyOk(cert.public_subkeys[m], cert.primary_key))
                => res.err = MissingBindings
    /\ (res.op = "subkey_verify" /\ cert.public_subkeys[res.n].signatures = <<>>) =>
            res.err = MissingBindings

C10_Witness ==
    /\ res.op = "verify"
    /\ origin = "literal"
    /\ res.err = MissingBindings
    /\ Len(cert.public_subkeys) = 2
    /\ Len(cert.public_subkeys[1].signatures) = 2
    /\ SubkeyOk(cert.public_subkeys[1], cert.primary_key)
    /\ cert.public_subkeys[2].signatures = <<>>

Bytes(out) == SumSeq([k \in 1..Len(out) |-> out[k].n])

\* C3: write_len() is the number of bytes to_writer() emits, for the
\* certificate and for each of its subkeys, every packet being emitted as its
\* header (tag and length prefix) and its body.
C3_WriteLenExact ==
    res.op = "write_len" =>
        res.n = IF res.value[1] = 0
                THEN Bytes(SignedPublicKeyToWriter(Sink(Unlimited), cert).out)
                ELSE Bytes(SignedPublicSubKeyToWriter(
                        Sink(Unlimited), cert.public_subkeys[res.value[1]],
                        res.value[1]).out)

\* The writes of to_writer() and their place in the canonical order.
Layout(c) ==
    {Chunk("PublicKey", 0, 0, "header", header_write_len(c.primary_key.len)),
     Chunk("PublicKey", 0, 0, "body", c.primary_key.len),
     Chunk("details", 0, 0, "body", c.details.len)}
    \cup UNION {{Chunk("PublicSubkey", i, 0, "header",
                        header_write_len(c.public_subkeys[i].key.len)),
                  Chunk("PublicSubkey", i, 0, "body", c.public_subkeys[i].key.len)} :
                i \in 1..Len(c.public_subkeys)}
    \cup UNION {UNION {{Chunk("Signature", i, j, "header",
                               header_write_len(c.public_subkeys[i].signatures[j].len)),
                         Chunk("Signature", i, j, "body",
                               c.public_subkeys[i].signatures[j].len)} :
                       j \in 1..Len(c.public_subkeys[i].signatures)} :
                i \in 1..Len(c.public_subkeys)}
Place(e) ==
    e.sub * 1000 + e.sig * 10
    + (CASE e.pkt = "PublicKey" -> 0 [] e.pkt = "details" -> 2
         [] e.pkt = "PublicSubkey" -> 0 [] e.pkt = "Signature" -> 0)
    + (IF e.part = "body" THEN 1 ELSE 0)

\* C4: to_writer() emits the primary key packet, the details, then each subkey
\* in order as its key packet followed by its signatures in order, header
\* before body, nothing else and nothing in between; after a failed write
\* nothing more is written.
C4_CanonicalOrder ==
    res.op = "to_writer" =>
        LET t == res.value
            n == Len(t)
        IN  /\ \A k \in 1..n : t[k] \in Layout(cert)
            /\ \A k \in 1..(n - 1) : Place(t[k]) < Place(t[k + 1])
            /\ \A e \in Layout(cert) :
                    (res.err = "" \/ (n >= 1 /\ Place(e) < Place(t[n]))) =>
                        \E k \in 1..n : t[k] = e
            /\ res.err # "" => n = res.n
            /\ res.n = Unlimited => res.err = ""

C4_Witness ==
    /\ res.op = "to_writer"
    /\ res.err # ""
    /\ Len(cert.public_subkeys) = 2
    /\ res.value # <<>>
    /\ res.value[Len(res.value)].pkt = "Signature"
    /\ res.value[Len(res.value)].sub = 1
    /\ res.value[Len(res.value)].part = "header"

====
